---- MODULE Spec2Model ----
(***************************************************************************)
(* A model of the personnel backend skeleton:                              *)
(*   - the relational schema declared by the SQLAlchemy models (tables     *)
(*     users, military_users, user_type_definitions, their defaults and    *)
(*     constraints) under the unit-of-work operations of an ORM session,   *)
(*   - the custom_fields helpers get_custom_field / set_custom_field,      *)
(*   - the HTTP surface (main:app and the users router).                   *)
(* The relationships of User to Assessment are forward declarations of an  *)
(* entity that is not part of this snapshot; the mappers are taken as      *)
(* configured.                                                             *)
(***************************************************************************)
EXTENDS Integers, FiniteSets, Sequences, TLC

(* ------------------------------ bounds --------------------------------- *)
MaxUUID == 3
MaxTime == 2
MaxObj == 4

UUIDs == 1..MaxUUID
Times == 0..MaxTime
ObjIds == 1..MaxObj
Sessions == {"s1", "s2"}
Emails == {"kirk@navy.mil", "spock@navy.mil"}

(* ------------------------- values and columns -------------------------- *)
\* A caller that leaves a constructor argument out.
NoUUID == 0
NoTime == -1
Unset == "<unset>"
NULL == "<NULL>"

\* String(50) of military_users.rank; a longer value is refused by the server.
String50 == 50
ShortRank == "CPT"
LongRank == "Fleet Admiral of the Combined Starfleet Expedition."

\* JSON values and documents (JSONB): a document maps keys to typed values.
JStr(s) == [type |-> "string", val |-> s]
JInt(s) == [type |-> "integer", val |-> s]
JNone == [type |-> "null", val |-> "None"]
FieldNames == {"ship_assignment", "deployment_date"}
JValues == {JStr("USS Enterprise"), JInt("1701"), JNone}
EmptyDoc == [k \in {} |-> JNone]
Docs == UNION {[K -> JValues] : K \in SUBSET FieldNames}
\* custom_fields is nullable: SQL NULL / Python None, or a document.
NoDoc == [none |-> TRUE]
SomeDoc(d) == [none |-> FALSE, doc |-> d]

UserRole == {"admin", "user"}
MilitaryBranch == {"army", "navy", "air_force", "marines", "space_force", "coast_guard"}

\* The mapper's polymorphic identities.
PolymorphicIdentity(cls) == IF cls = "MilitaryUser" THEN "military_user" ELSE "user"
Classes == {"User", "MilitaryUser"}
RegisteredIdentities == {PolymorphicIdentity(c) : c \in Classes}

VARIABLES
    users,                  \* committed rows of table users
    military_users,         \* committed rows of table military_users
    user_type_definitions,  \* committed rows of table user_type_definitions
    sess,                   \* per session: the unit of work in flight
    now,                    \* the database server's clock
    issued,                 \* identifiers uuid.uuid4 has handed out
    requests,               \* HTTP requests and their progress
    heap,                   \* live dict objects: object id -> document
    obj                     \* an in-memory User: its custom_fields reference etc.

vars == <<users, military_users, user_type_definitions, sess, now, issued,
          requests, heap, obj>>
dbVars == <<users, military_users, user_type_definitions, sess, now, issued>>
httpVars == <<requests>>
memVars == <<heap, obj>>

(* ------------------------------ schema --------------------------------- *)
\* A users row that stands for "no row" in a session that stages nothing.
NoRow == [id |-> NoUUID, email |-> "", user_type |-> NULL,
          custom_type_definition_id |-> NoUUID, custom_fields |-> NoDoc,
          created_on |-> NoTime, updated_on |-> NoTime]

IdleSession == [pc |-> "idle", op |-> "none", cls |-> "User", row |-> NoRow,
                rank |-> ShortRank, error |-> "none"]

\* field_schema documents: field name -> validation rule.
Rule(t, req) == [type |-> t, required |-> req]
NoSchema == [k \in {} |-> Rule("string", FALSE)]
NavySchema == [k \in {"ship_assignment"} |-> Rule("string", TRUE)]
FieldSchemas == {NoSchema, NavySchema}

\* BaseModel.id: primary_key=True, on every table.
PrimaryKeyFree(rows, id) == \A r \in rows : r.id # id

\* users.email: unique=True (a unique index).
users_email_no_index(rows, email) == TRUE
users_email_unique(rows, email) == \A r \in rows : r.email # email

\* users.custom_type_definition_id: ForeignKey("user_type_definitions.id"),
\* nullable.
custom_type_definition_fk(utds, ref) == ref = NoUUID \/ \E t \in utds : t.id = ref

\* military_users.id: ForeignKey("users.id"), no ON DELETE action: a statement
\* that would leave a military_users row without its users row is refused.
military_users_no_fk(us, ms) == TRUE
military_users_fk(us, ms) == \A m \in ms : \E u \in us : u.id = m.id

\* TimeStampMixin: server_default = func.now() fills a column the INSERT
\* leaves out; a value the caller gives is stored as given.
server_default_now(given, clock) == IF given = NoTime THEN clock ELSE given

\* BaseModel.id default = uuid.uuid4: called when the caller gave no id.
\* uuid4 draws a value it has not handed out and nobody holds; identifiers
\* are opaque, so the draw is the least such value.
FreshUUIDs == {u \in UUIDs : /\ u \notin issued
                             /\ PrimaryKeyFree(users, u)
                             /\ PrimaryKeyFree(user_type_definitions, u)
                             /\ \A s \in Sessions : sess[s].row.id # u}
uuid4 == {u \in FreshUUIDs : \A w \in FreshUUIDs : u <= w}

\* How a users row is loaded: the discriminator picks the mapped class; NULL
\* loads as the base class; a value no mapper registers makes the load fail.
Classify(user_type) ==
    IF user_type = NULL THEN "User"
    ELSE IF user_type = PolymorphicIdentity("MilitaryUser") THEN "MilitaryUser"
    ELSE IF user_type = PolymorphicIdentity("User") THEN "User"
    ELSE "AssertionError"

(* --------------------------- unit of work ------------------------------ *)
\* session.add(cls(**p)); the flush computes the INSERT's parameters: the
\* polymorphic identity unless the caller set user_type, default=uuid4 and
\* default=dict for what the caller left out.
Add(s, cls, p) ==
    /\ sess[s].pc = "idle"
    /\ \E u \in (IF p.id = NoUUID THEN uuid4 ELSE {p.id}) :
         /\ issued' = IF p.id = NoUUID THEN issued \cup {u} ELSE issued
         /\ sess' = [sess EXCEPT ![s] =
               [pc |-> "insert_base", op |-> "create", cls |-> cls,
                row |-> [id |-> u,
                         email |-> p.email,
                         user_type |-> IF p.user_type = Unset
                                       THEN PolymorphicIdentity(cls)
                                       ELSE p.user_type,
                         custom_type_definition_id |-> p.custom_type_definition_id,
                         custom_fields |-> IF p.custom_fields.none
                                           THEN SomeDoc(EmptyDoc)
                                           ELSE p.custom_fields,
                         created_on |-> p.created_on,
                         updated_on |-> p.updated_on],
                rank |-> p.rank, error |-> "none"]]
    /\ UNCHANGED <<users, military_users, user_type_definitions, now>>
    /\ UNCHANGED <<httpVars, memVars>>

\* The statement raised: the transaction is rolled back.
Fail(s, err) ==
    sess' = [sess EXCEPT ![s].pc = "failed", ![s].error = err, ![s].rank = ShortRank]

\* Another transaction holds an uncommitted row with the same key: the
\* server makes this INSERT wait for it to end.
Blocked(s, row) ==
    \E t \in Sessions \ {s} :
        /\ sess[t].pc \in {"insert_ext", "commit"}
        /\ \/ ~PrimaryKeyFree({sess[t].row}, row.id)
           \/ ~users_email_unique({sess[t].row}, row.email)

\* INSERT INTO users.
InsertBase(s) ==
    /\ sess[s].pc = "insert_base"
    /\ LET row == [sess[s].row EXCEPT
                     !.created_on = server_default_now(@, now),
                     !.updated_on = server_default_now(@, now)]
       IN  /\ ~Blocked(s, row)
           /\ IF ~PrimaryKeyFree(users, row.id) \/ ~users_email_unique(users, row.email)
              THEN Fail(s, "UniqueViolation")
              ELSE IF ~custom_type_definition_fk(user_type_definitions,
                                                 row.custom_type_definition_id)
              THEN Fail(s, "ForeignKeyViolation")
              ELSE sess' = [sess EXCEPT
                              ![s].row = row,
                              ![s].pc = IF sess[s].cls = "MilitaryUser"
                                        THEN "insert_ext" ELSE "commit"]
    /\ UNCHANGED <<users, military_users, user_type_definitions, now, issued>>
    /\ UNCHANGED <<httpVars, memVars>>

\* INSERT INTO military_users, in the same transaction; a failure rolls the
\* transaction back.
InsertExt(s) ==
    /\ sess[s].pc = "insert_ext"
    /\ IF Len(sess[s].rank) > String50
       THEN Fail(s, "DataError")
       ELSE sess' = [sess EXCEPT ![s].pc = "commit"]
    /\ UNCHANGED <<users, military_users, user_type_definitions, now, issued>>
    /\ UNCHANGED <<httpVars, memVars>>

\* COMMIT: the staged rows become visible together.
Commit(s) ==
    /\ sess[s].pc = "commit"
    /\ users' = users \cup {sess[s].row}
    /\ military_users' =
         IF sess[s].cls = "MilitaryUser"
         THEN military_users \cup {[id |-> sess[s].row.id, rank |-> sess[s].rank]}
         ELSE military_users
    /\ sess' = [sess EXCEPT ![s].pc = "committed", ![s].rank = ShortRank]
    /\ UNCHANGED <<user_type_definitions, now, issued>>
    /\ UNCHANGED <<httpVars, memVars>>

\* The session is handed back and used again.
Close(s) ==
    /\ sess[s].pc \in {"committed", "failed"}
    /\ sess' = [sess EXCEPT ![s] = IdleSession]
    /\ UNCHANGED <<users, military_users, user_type_definitions, now, issued>>
    /\ UNCHANGED <<httpVars, memVars>>

Done(s, op, row, err) ==
    sess' = [sess EXCEPT ![s] =
               [IdleSession EXCEPT !.pc = IF err = "none" THEN "committed" ELSE "failed",
                                   !.op = op, !.row = row, !.error = err]]

\* session.delete(session.get(User, id)); commit(). The unit of work deletes
\* from the tables of the class the row loads as, extension first.
DeleteEntity(s, id) ==
    /\ sess[s].pc = "idle"
    /\ \E u \in users :
         /\ u.id = id
         /\ LET cls == Classify(u.user_type)
                us == users \ {u}
                ms == IF cls = "MilitaryUser"
                      THEN {m \in military_users : m.id # id}
                      ELSE military_users
                err == IF cls = "AssertionError" THEN "AssertionError"
                       ELSE IF ~military_users_fk(us, ms) THEN "ForeignKeyViolation"
                       ELSE "none"
           IN  /\ Done(s, "delete", u, err)
               /\ users' = IF err = "none" THEN us ELSE users
               /\ military_users' = IF err = "none" THEN ms ELSE military_users
    /\ UNCHANGED <<user_type_definitions, now, issued>>
    /\ UNCHANGED <<httpVars, memVars>>

\* DELETE FROM users WHERE id = :id, as one statement on the base table.
DeleteUserRow(s, id) ==
    /\ sess[s].pc = "idle"
    /\ \E u \in users :
         /\ u.id = id
         /\ LET us == users \ {u}
                err == IF ~military_users_fk(us, military_users)
                       THEN "ForeignKeyViolation" ELSE "none"
           IN  /\ Done(s, "delete_row", u, err)
               /\ users' = IF err = "none" THEN us ELSE users
    /\ UNCHANGED <<military_users, user_type_definitions, now, issued>>
    /\ UNCHANGED <<httpVars, memVars>>

\* user.custom_fields = doc; commit(). UPDATE users SET custom_fields = :doc,
\* updated_on = now() (onupdate = func.now()); created_on is not in the SET.
UpdateUser(s, id, doc) ==
    /\ sess[s].pc = "idle"
    /\ \E u \in users :
         /\ u.id = id
         /\ Classify(u.user_type) # "AssertionError"
         /\ u.custom_fields # SomeDoc(doc)
         /\ LET v == [u EXCEPT !.custom_fields = SomeDoc(doc), !.updated_on = now]
           IN  /\ users' = (users \ {u}) \cup {v}
               /\ Done(s, "update", v, "none")
    /\ UNCHANGED <<military_users, user_type_definitions, now, issued>>
    /\ UNCHANGED <<httpVars, memVars>>

\* military_user.rank = rank; commit(). Only an extension column changed, so
\* the unit of work emits UPDATE military_users alone: no statement touches
\* table users, and its onupdate does not run.
UpdateMilitaryUser(s, id, rank) ==
    /\ sess[s].pc = "idle"
    /\ \E u \in users, m \in military_users :
         /\ u.id = id /\ m.id = id
         /\ Classify(u.user_type) = "MilitaryUser"
         /\ m.rank # rank
         /\ IF Len(rank) > String50
            THEN /\ Done(s, "update_ext", u, "DataError")
                 /\ UNCHANGED military_users
            ELSE /\ Done(s, "update_ext", u, "none")
                 /\ military_users' = (military_users \ {m}) \cup {[m EXCEPT !.rank = rank]}
    /\ UNCHANGED <<users, user_type_definitions, now, issued>>
    /\ UNCHANGED <<httpVars, memVars>>

\* session.add(UserTypeDefinition(field_schema = schema)); commit().
CreateUserTypeDefinition(schema) ==
    /\ \E u \in uuid4 :
         /\ issued' = issued \cup {u}
         /\ user_type_definitions' = user_type_definitions \cup
              {[id |-> u, field_schema |-> schema, is_active |-> TRUE,
                created_on |-> server_default_now(NoTime, now),
                updated_on |-> server_default_now(NoTime, now)]}
    /\ UNCHANGED <<users, military_users, sess, now>>
    /\ UNCHANGED <<httpVars, memVars>>

\* definition.is_active = False; commit(): the logical deactivation.
DeactivateUserTypeDefinition(id) ==
    /\ \E t \in user_type_definitions :
         /\ t.id = id
         /\ t.is_active
         /\ user_type_definitions' = (user_type_definitions \ {t}) \cup
              {[t EXCEPT !.is_active = FALSE, !.updated_on = now]}
    /\ UNCHANGED <<users, military_users, sess, now, issued>>
    /\ UNCHANGED <<httpVars, memVars>>

\* The server's clock advances.
Tick ==
    /\ now < MaxTime
    /\ now' = now + 1
    /\ UNCHANGED <<users, military_users, user_type_definitions, sess, issued>>
    /\ UNCHANGED <<httpVars, memVars>>

\* session.get(User, id): the row is loaded as the class its discriminator
\* names.
LoadEntity(s, id) ==
    /\ sess[s].pc = "idle"
    /\ \E u \in users :
         /\ u.id = id
         /\ LET cls == Classify(u.user_type)
           IN  sess' = [sess EXCEPT ![s] =
                   [IdleSession EXCEPT
                      !.pc = IF cls = "AssertionError" THEN "failed" ELSE "committed",
                      !.op = "load", !.row = u,
                      !.cls = IF cls = "AssertionError" THEN "User" ELSE cls,
                      !.error = IF cls = "AssertionError" THEN cls ELSE "none"]]
    /\ UNCHANGED <<users, military_users, user_type_definitions, now, issued>>
    /\ UNCHANGED <<httpVars, memVars>>

(* ------------------------- custom_fields helpers ----------------------- *)
\* References to dict objects; NoObj is None.
NoObj == 0
NoCall == [op |-> "none", k |-> "", v |-> JNone]
Call(op, k, v) == [op |-> op, k |-> k, v |-> v]

\* A new object gets an identity no live object has.
Alloc(h) == CHOOSE o \in ObjIds \ DOMAIN h : \A w \in ObjIds \ DOMAIN h : o <= w
\* h with object o bound to document d.
Bind(h, o, d) == [x \in DOMAIN h \cup {o} |-> IF x = o THEN d ELSE h[x]]
\* fields[field_name] = value on a dict.
DictSet(d, k, v) == [x \in DOMAIN d \cup {k} |-> IF x = k THEN v ELSE d[x]]

\* User.get_custom_field(field_name, default).
get_custom_field(h, cf, field_name, default) ==
    IF cf # NoObj
    THEN IF field_name \in DOMAIN h[cf] THEN h[cf][field_name] ELSE default
    ELSE default

\* set_custom_field with "fields = self.custom_fields" for the copy: the dict
\* the user holds is edited in place.
set_custom_field_in_place(h, cf, field_name, value) ==
    LET h1 == IF cf = NoObj THEN Bind(h, Alloc(h), EmptyDoc) ELSE h
        cf1 == IF cf = NoObj THEN Alloc(h) ELSE cf
    IN  [heap |-> Bind(h1, cf1, DictSet(h1[cf1], field_name, value)),
         custom_fields |-> cf1]

\* set_custom_field that returns once it has initialised an absent document.
set_custom_field_early_return(h, cf, field_name, value) ==
    IF cf = NoObj
    THEN [heap |-> Bind(h, Alloc(h), EmptyDoc), custom_fields |-> Alloc(h)]
    ELSE LET fields == Alloc(h)
         IN  [heap |-> Bind(h, fields, DictSet(h[cf], field_name, value)),
              custom_fields |-> fields]

\* set_custom_field(self, field_name, value): the heap and the reference
\* self.custom_fields after the call.
set_custom_field(h, cf, field_name, value) ==
    LET \* if self.custom_fields is None: self.custom_fields = {}
        h1 == IF cf = NoObj THEN Bind(h, Alloc(h), EmptyDoc) ELSE h
        cf1 == IF cf = NoObj THEN Alloc(h) ELSE cf
        \* fields = dict(self.custom_fields)
        fields == Alloc(h1)
        h2 == Bind(h1, fields, h1[cf1])
        \* fields[field_name] = value
        h3 == Bind(h2, fields, DictSet(h2[fields], field_name, value))
    IN  \* self.custom_fields = fields
        [heap |-> h3, custom_fields |-> fields]

\* Objects nothing refers to any more are freed.
Collect(h, refs) == [o \in DOMAIN h \cap refs |-> h[o]]

\* The user object is constructed in memory or loaded with a stored document.
Load(d) ==
    /\ obj.last.op = "none" /\ obj.custom_fields = NoObj
    /\ heap' = Bind(heap, Alloc(heap), d)
    /\ obj' = [obj EXCEPT !.custom_fields = Alloc(heap), !.last = Call("load", "", JNone)]
    /\ UNCHANGED <<dbVars, httpVars>>

\* A call set_custom_field(user, k, v), flag_modified included.
SetCustomField(k, v) ==
    /\ LET r == set_custom_field(heap, obj.custom_fields, k, v)
       IN  /\ heap' = Collect(r.heap, {r.custom_fields, obj.held})
           /\ obj' = [obj EXCEPT !.custom_fields = r.custom_fields,
                                 !.modified = @ \cup {"custom_fields"},
                                 !.prev = obj.last, !.last = Call("set", k, v),
                                 !.epoch = ~@]
    /\ UNCHANGED <<dbVars, httpVars>>

\* A call user.get_custom_field(k, default); the value returned is recorded.
GetCustomField(k, default) ==
    /\ obj' = [obj EXCEPT !.prev = obj.last,
                          !.last = Call("get", k,
                                        get_custom_field(heap, obj.custom_fields, k, default)),
                          !.epoch = ~@]
    /\ UNCHANGED heap
    /\ UNCHANGED <<dbVars, httpVars>>

\* The caller keeps a reference to the document the user holds now.
Hold ==
    /\ obj.custom_fields # NoObj
    /\ obj.held # obj.custom_fields
    /\ obj' = [obj EXCEPT !.held = obj.custom_fields]
    /\ heap' = Collect(heap, {obj.custom_fields})
    /\ UNCHANGED <<dbVars, httpVars>>

\* The session flushes the user: the modified flag is cleared.
Flush ==
    /\ obj.modified # {}
    /\ obj' = [obj EXCEPT !.modified = {}]
    /\ UNCHANGED heap
    /\ UNCHANGED <<dbVars, httpVars>>

(* ------------------------------ HTTP surface --------------------------- *)
MaxRequests == 2
RequestIds == 1..MaxRequests
HTTP_200_OK == "200 OK"
HTTP_201_CREATED == "201 Created"
HTTP_404_NOT_FOUND == "404 Not Found"
HTTP_422_UNPROCESSABLE == "422 Unprocessable Entity"
HTTP_500_INTERNAL_SERVER_ERROR == "500 Internal Server Error"
NoStatus == ""

\* The applications a request can be sent to: main:app, which registers GET /
\* alone, and an application that mounts the users router.
Apps == {"main:app", "users.router"}
Routes == {<<"GET", "/">>, <<"POST", "/users/">>}
Registered(app) == IF app = "main:app" THEN {<<"GET", "/">>} ELSE {<<"POST", "/users/">>}

\* A JSON body: whether it carries every field of UserSchema with a value of
\* the field's type, its email and its role.
Bodies == [complete : BOOLEAN, email : Emails, role : {"admin", "user", "root"}]
NoBody == [complete |-> FALSE, email |-> "", role |-> ""]

\* UserSchema: ten required fields; role is a UserRole.
UserSchema(b) == b.complete /\ b.role \in UserRole

NoRequest == [phase |-> "none", app |-> "", route |-> <<"", "">>, body |-> NoBody,
              status |-> NoStatus, result |-> "", persisted |-> FALSE]

Receive(r, app, route, body) ==
    /\ requests[r].phase = "none"
    /\ requests' = [requests EXCEPT ![r] =
          [NoRequest EXCEPT !.phase = "received", !.app = app, !.route = route,
                            !.body = IF route[1] = "POST" THEN body ELSE NoBody]]
    /\ UNCHANGED <<dbVars, memVars>>

\* No route of the application matches.
NotFound(r) ==
    /\ requests[r].phase = "received"
    /\ requests[r].route \notin Registered(requests[r].app)
    /\ requests' = [requests EXCEPT ![r].phase = "responded",
                                    ![r].status = HTTP_404_NOT_FOUND]
    /\ UNCHANGED <<dbVars, memVars>>

\* main.root
root(r) ==
    /\ requests[r].phase = "received"
    /\ requests[r].route = <<"GET", "/">>
    /\ requests[r].route \in Registered(requests[r].app)
    /\ requests' = [requests EXCEPT ![r].phase = "responded",
                                    ![r].status = HTTP_200_OK,
                                    ![r].result = "Hello World!"]
    /\ UNCHANGED <<dbVars, memVars>>

\* The body of POST /users/ is parsed into the handler's parameter
\* user: UserSchema; a body that does not validate is answered 422.
Validate(r) ==
    /\ requests[r].phase = "received"
    /\ requests[r].route = <<"POST", "/users/">>
    /\ requests[r].route \in Registered(requests[r].app)
    /\ requests' = IF UserSchema(requests[r].body)
                   THEN [requests EXCEPT ![r].phase = "validated"]
                   ELSE [requests EXCEPT ![r].phase = "responded",
                                         ![r].status = HTTP_422_UNPROCESSABLE]
    /\ UNCHANGED <<dbVars, memVars>>

\* create_user(user): the body is its docstring; it returns None and touches
\* no table.
create_user(r) ==
    /\ requests[r].phase = "validated"
    /\ requests' = [requests EXCEPT ![r].phase = "returned", ![r].result = "None"]
    /\ UNCHANGED <<dbVars, memVars>>

\* The return value is serialised through response_model = UserSchema with
\* status_code = 201; a value that is no UserSchema is a server error.
Respond(r) ==
    /\ requests[r].phase = "returned"
    /\ requests' = [requests EXCEPT
          ![r].phase = "responded",
          ![r].status = IF requests[r].result = "None"
                        THEN HTTP_500_INTERNAL_SERVER_ERROR
                        ELSE HTTP_201_CREATED]
    /\ UNCHANGED <<dbVars, memVars>>

\* The connection is closed and the slot serves the next request.
Forget(r) ==
    /\ requests[r].phase = "responded"
    /\ requests' = [requests EXCEPT ![r] = NoRequest]
    /\ UNCHANGED <<dbVars, memVars>>

(* ---------------------------- specifications --------------------------- *)
InitDB ==
    /\ users = {}
    /\ military_users = {}
    /\ user_type_definitions = {}
    /\ sess = [s \in Sessions |-> IdleSession]
    /\ now = 0
    /\ issued = {}

InitHttp == requests = [r \in RequestIds |-> NoRequest]

\* User(): custom_fields is None until a flush applies default=dict.
InitMem ==
    /\ heap = <<>>
    /\ obj = [custom_fields |-> NoObj, held |-> NoObj, modified |-> {},
              last |-> NoCall, prev |-> NoCall, epoch |-> FALSE]

\* Constructor arguments of the create operations.
Payload(email, id, user_type, ref, doc, c, u, rank) ==
    [email |-> email, id |-> id, user_type |-> user_type,
     custom_type_definition_id |-> ref, custom_fields |-> doc,
     created_on |-> c, updated_on |-> u, rank |-> rank]

\* Creations and deletions: the caller chooses the class, the email, the id
\* (or none), the discriminator (or none) and the rank.
CreatePayloads ==
    {Payload(e, i, Unset, NoUUID, NoDoc, NoTime, NoTime, r) :
        e \in Emails, i \in {NoUUID, 1}, r \in {ShortRank, LongRank}}

Init == InitDB /\ InitHttp /\ InitMem

Next ==
    \/ \E s \in Sessions, c \in Classes, p \in CreatePayloads : Add(s, c, p)
    \/ \E s \in Sessions : InsertBase(s)
    \/ \E s \in Sessions : InsertExt(s)
    \/ \E s \in Sessions : Commit(s)
    \/ \E s \in Sessions : Close(s)
    \/ \E s \in Sessions, id \in UUIDs : DeleteEntity(s, id)
    \/ \E s \in Sessions, id \in UUIDs : DeleteUserRow(s, id)

Spec == Init /\ [][Next]_vars

\* The caller sets the discriminator, UserSchema.user_type being a required
\* free-form string.
DiscriminatorPayloads ==
    {Payload(e, NoUUID, t, NoUUID, NoDoc, NoTime, NoTime, r) :
        e \in Emails, t \in {Unset, NULL, "user", "military_user", "pirate"},
        r \in {ShortRank, LongRank}}

NextDiscriminator ==
    \/ \E s \in Sessions, c \in Classes, p \in DiscriminatorPayloads : Add(s, c, p)
    \/ \E s \in Sessions : InsertBase(s)
    \/ \E s \in Sessions : InsertExt(s)
    \/ \E s \in Sessions : Commit(s)
    \/ \E s \in Sessions : Close(s)
    \/ \E s \in Sessions, id \in UUIDs : LoadEntity(s, id)
    \/ \E s \in Sessions, id \in UUIDs : DeleteEntity(s, id)

SpecDiscriminator == Init /\ [][NextDiscriminator]_vars

\* The caller sets id, created_on and updated_on, which UserSchema requires
\* of a request body, or leaves them to the defaults.
AuditPayloads ==
    {Payload("kirk@navy.mil", i, Unset, NoUUID, NoDoc, c, u, ShortRank) :
        i \in {NoUUID, 1}, c \in {NoTime, MaxTime}, u \in {NoTime, 0}}

NextAudit ==
    \/ \E c \in Classes, p \in AuditPayloads : Add("s1", c, p)
    \/ InsertBase("s1")
    \/ InsertExt("s1")
    \/ Commit("s1")
    \/ Close("s1")
    \/ \E id \in UUIDs : UpdateUser("s1", id, [k \in {"ship_assignment"} |-> JStr("USS Enterprise")])
    \/ \E id \in UUIDs, r \in {"MAJ", LongRank} : UpdateMilitaryUser("s1", id, r)
    \/ CreateUserTypeDefinition(NoSchema)
    \/ \E id \in UUIDs : DeactivateUserTypeDefinition(id)
    \/ Tick

SpecAudit == Init /\ [][NextAudit]_vars

\* The caller references a user type definition and gives custom_fields.
CustomTypePayloads ==
    {Payload(e, NoUUID, Unset, t, d, NoTime, NoTime, ShortRank) :
        e \in Emails, t \in {NoUUID} \cup UUIDs,
        d \in {NoDoc} \cup {SomeDoc(x) : x \in [{"ship_assignment"} -> JValues]}}

NextCustomType ==
    \/ \E f \in FieldSchemas : CreateUserTypeDefinition(f)
    \/ \E id \in UUIDs : DeactivateUserTypeDefinition(id)
    \/ \E p \in CustomTypePayloads : Add("s1", "User", p)
    \/ InsertBase("s1")
    \/ Commit("s1")
    \/ Close("s1")
    \/ \E id \in UUIDs, d \in Docs : UpdateUser("s1", id, d)

SpecCustomType == Init /\ [][NextCustomType]_vars

NextHttp ==
    \/ \E r \in RequestIds, a \in Apps, t \in Routes, b \in Bodies : Receive(r, a, t, b)
    \/ \E r \in RequestIds : NotFound(r)
    \/ \E r \in RequestIds : root(r)
    \/ \E r \in RequestIds : Validate(r)
    \/ \E r \in RequestIds : create_user(r)
    \/ \E r \in RequestIds : Respond(r)
    \/ \E r \in RequestIds : Forget(r)

SpecHttp == Init /\ [][NextHttp]_vars

NextCustomFields ==
    \/ \E d \in Docs : Load(d)
    \/ \E k \in FieldNames, v \in JValues : SetCustomField(k, v)
    \/ \E k \in FieldNames, v \in JValues : GetCustomField(k, v)
    \/ Hold
    \/ Flush

SpecCustomFields == Init /\ [][NextCustomFields]_vars

(* ------------------------------- claims -------------------------------- *)
StoredEmailsUnique == \A u, v \in users : u.email = v.email => u = v

\* The INSERT of session s is decided in this step.
InsertDecided(s) == sess[s].pc = "insert_base" /\ sess'[s].pc # "insert_base"

\* C1: of creation requests that carry the same email at most one succeeds:
\* a creation whose INSERT is decided while a stored user holds its email
\* fails with a uniqueness error, a creation commits only when no stored user
\* holds its email, whatever the interleaving of the sessions, and in every
\* reachable state no two stored users (base or military) share an email.
C1_EmailUniqueness ==
    /\ []StoredEmailsUnique
    /\ [][\A s \in Sessions :
            (InsertDecided(s) /\ \E u \in users : u.email = sess[s].row.email)
                => (sess'[s].pc = "failed" /\ sess'[s].error = "UniqueViolation")]_vars
    /\ [][\A s \in Sessions :
            (sess[s].pc = "commit" /\ sess'[s].pc = "committed")
                => \A u \in users : u.email # sess[s].row.email]_vars

\* Two creations with the same email and different ids have ended: one is
\* stored, the other failed with the uniqueness error.
C1_Witness ==
    \E s, t \in Sessions :
        /\ sess[s].op = "create" /\ sess[s].pc = "committed"
        /\ sess[t].op = "create" /\ sess[t].pc = "failed"
        /\ sess[t].error = "UniqueViolation"
        /\ sess[s].row.email = sess[t].row.email
        /\ sess[s].row.id # sess[t].row.id
        /\ sess[s].row \in users
        /\ sess[t].cls = "MilitaryUser"

\* C8: every military_users row has a users row with the same id, so no
\* extension row survives the deletion of its base row.
C8_ExtensionHasBase ==
    \A m \in military_users : \E u \in users : u.id = m.id

\* A stored military user was deleted through the session: both rows are gone
\* while another military user is still stored.
C8_Witness ==
    \E s \in Sessions :
        /\ sess[s].op = "delete" /\ sess[s].pc = "committed"
        /\ sess[s].row.user_type = "military_user"
        /\ \A u \in users : u.id # sess[s].row.id
        /\ \A m \in military_users : m.id # sess[s].row.id
        /\ military_users # {}

\* C2: no observable state holds a users row with user_type "military_user"
\* whose military_users row is missing.
C2_NoBaseRowWithoutExtension ==
    \A u \in users :
        u.user_type = "military_user" => \E m \in military_users : m.id = u.id

\* C3: a create-user request with a valid payload that has been responded to
\* was validated and persisted first, and is answered 201.
C3_CreateRequestLifecycle ==
    \A r \in RequestIds :
        (/\ requests[r].phase = "responded"
         /\ requests[r].route = <<"POST", "/users/">>
         /\ UserSchema(requests[r].body))
            => /\ requests[r].status = HTTP_201_CREATED
               /\ requests[r].persisted
               /\ \E u \in users : u.email = requests[r].body.email

\* A call of set_custom_field happens in this step.
SetStep == obj'.epoch # obj.epoch /\ obj'.last.op = "set"
\* The document the user holds.
DocOf(h, o) == IF o.custom_fields = NoObj THEN NoDoc ELSE SomeDoc(h[o.custom_fields])

\* C4: set_custom_field applied again with the field and value of the call
\* before leaves the document as that call left it.
C4_SetCustomFieldIdempotent ==
    [][(SetStep /\ obj.last = obj'.last) => DocOf(heap', obj') = DocOf(heap, obj)]_vars

\* The same field and value were applied twice in a row, and the document
\* holds that field alone.
C4_Witness ==
    /\ obj.last.op = "set" /\ obj.prev = obj.last
    /\ obj.custom_fields # NoObj
    /\ heap[obj.custom_fields] = [k \in {obj.last.k} |-> obj.last.v]

\* C5: set_custom_field(k, v) gives the user a newly constructed document in
\* which k maps to v and every other key keeps its value, no dict that was
\* live before the call is changed, and get_custom_field(k) then returns v.
C5_SetCustomFieldFrame ==
    [][SetStep =>
        LET k == obj'.last.k
            v == obj'.last.v
            old == IF obj.custom_fields = NoObj THEN EmptyDoc ELSE heap[obj.custom_fields]
            new == heap'[obj'.custom_fields]
        IN  /\ obj'.custom_fields # NoObj
            /\ obj'.custom_fields \notin DOMAIN heap
            /\ DOMAIN new = DOMAIN old \cup {k}
            /\ new[k] = v
            /\ \A x \in DOMAIN old \ {k} : new[x] = old[x]
            /\ \A o \in DOMAIN heap \cap DOMAIN heap' : heap'[o] = heap[o]
            /\ obj.held # NoObj => obj.held \in DOMAIN heap'
            /\ get_custom_field(heap', obj'.custom_fields, k, JStr("<default>")) = v
      ]_vars

\* A value was replaced while the caller still holds the document the user
\* had before, and get_custom_field has returned the new value.
C5_Witness ==
    /\ obj.last.op = "get" /\ obj.prev.op = "set"
    /\ obj.last.k = obj.prev.k /\ obj.last.v = obj.prev.v
    /\ obj.held # NoObj /\ obj.held # obj.custom_fields
    /\ obj.prev.k \in DOMAIN heap[obj.held]
    /\ heap[obj.held][obj.prev.k] # obj.prev.v
    /\ Cardinality(DOMAIN heap[obj.custom_fields]) > 1

TimestampsOrdered(rows) ==
    \A r \in rows : /\ r.created_on # NoTime /\ r.updated_on # NoTime
                    /\ r.updated_on >= r.created_on

\* Row v of the next state, set against the rows before the step: a new row
\* has equal timestamps; a kept row keeps created_on, and has updated_on
\* refreshed when a column of it changed.
TimestampsKept(before, v, changed) ==
    IF \A u \in before : u.id # v.id
    THEN v.created_on = v.updated_on
    ELSE \A u \in before :
            u.id = v.id => /\ v.created_on = u.created_on
                           /\ (u # v \/ changed) => v.updated_on = now

\* C6: every persisted row has both timestamps, updated_on >= created_on;
\* they are equal at creation, created_on never changes, and every update
\* refreshes updated_on.
C6_AuditTimestamps ==
    /\ [](TimestampsOrdered(users) /\ TimestampsOrdered(user_type_definitions))
    /\ [][/\ \A v \in users' :
                TimestampsKept(users, v,
                    {m \in military_users : m.id = v.id}
                        # {m \in military_users' : m.id = v.id})
          /\ \A t \in user_type_definitions' :
                TimestampsKept(user_type_definitions, t, FALSE)]_vars

\* C7: id, created_on and updated_on of a stored entity are the server's:
\* the id is one uuid4 generated, the timestamps are the clock at the INSERT
\* whatever the caller supplied, and the id of a stored entity never changes.
C7_ServerAssignedIdentity ==
    /\ [](\A r \in users \cup {[id |-> t.id] : t \in user_type_definitions} :
            r.id \in issued)
    /\ [][\A s \in Sessions :
            (InsertDecided(s) /\ sess'[s].pc # "failed")
                => /\ sess'[s].row.created_on = now
                   /\ sess'[s].row.updated_on = now]_vars
    /\ [][\A u \in users, v \in users' : u.email = v.email => u.id = v.id]_vars

\* The required fields of schema that document cf lacks.
MissingRequired(schema, cf) ==
    {f \in DOMAIN schema : schema[f].required /\ (cf.none \/ f \notin DOMAIN cf.doc)}

\* C9: no user that references a user type definition is stored with
\* custom_fields missing a field its field_schema requires.
C9_RequiredFieldsEnforced ==
    \A u \in users, t \in user_type_definitions :
        t.id = u.custom_type_definition_id
            => MissingRequired(t.field_schema, u.custom_fields) = {}

\* C10: a user whose discriminator is no registered identity is neither
\* stored nor loaded as a base user.
C10_UnknownDiscriminatorRejected ==
    /\ \A u \in users : u.user_type \in RegisteredIdentities
    /\ \A s \in Sessions :
          (sess[s].op = "load" /\ sess[s].pc = "committed")
              => sess[s].row.user_type \in RegisteredIdentities

====
